---- MODULE Spec2Model ----
(***************************************************************************)
(* The Sparkify data-lake ETL (etl.py): main runs process_song_data and    *)
(* then process_log_data; each builds tables from the raw song catalog and *)
(* the session log and writes them, in overwrite mode, to the destination. *)
(*                                                                         *)
(* A data frame is a sequence of rows (a bag with a file order); a table   *)
(* at the destination is a set of rows.  Every read and every write is a   *)
(* step of its own, because each can raise and abort the run there.        *)
(***************************************************************************)
EXTENDS Integers, Sequences, FiniteSets

VARIABLES input,        \* the raw data under input_data: [songs, log]
          pc,           \* the step main executes next
          song_data_df, \* process_song_data's frame (schema read)
          log_data_df,  \* process_log_data's frame
          song_df,      \* process_log_data's second read of the catalog
          songs, artists, users, time, songplays,  \* the destination
          written,      \* the tables this run has written, in order
          runs,         \* invocations of main so far
          edits,        \* changes made to the raw data so far
          replay        \* the destination holds a completed run on this input

vars == <<input, pc, song_data_df, log_data_df, song_df,
          songs, artists, users, time, songplays, written, runs, edits, replay>>

dest == <<songs, artists, users, time, songplays>>

----------------------------------------------------------------------------
(* Bounds of the model *)

MaxSongs == 2     \* records in the song catalog
MaxEvents == 3    \* events in the session log
MaxRuns == 2      \* invocations of main
MaxEdits == 1     \* changes of the raw data between runs

----------------------------------------------------------------------------
(* Raw data *)

Null == "null"

SongRecord(sid, t, aid, an, y) ==
    [artist_id |-> aid, artist_latitude |-> 10, artist_location |-> "Vancouver",
     artist_longitude |-> 20, artist_name |-> an, duration |-> 200,
     num_songs |-> 1, song_id |-> sid, title |-> t, year |-> y]

\* Two records with the same (title, artist_name) and different song_id; two
\* records with the same song_id and the same artist_id but other attributes.
Song1 == SongRecord("S1", "Test Song", "A1", "Test Artist", 2000)
Song2 == SongRecord("S2", "Test Song", "A1", "Test Artist", 2001)
Song3 == SongRecord("S1", "Other Song", "A1", "Artist Alias", 2002)

SongPool == {Song1, Song2, Song3}

LogEvent(t, p, u, lv, s, a, sess) ==
    [ts |-> t, page |-> p, userId |-> u, firstName |-> "F", lastName |-> "L",
     gender |-> "F", level |-> lv, song |-> s, artist |-> a,
     sessionId |-> sess, location |-> "Seattle", userAgent |-> "Mozilla"]

\* Two plays by one user on two levels, the second a day later in the same
\* hour and matching the catalog on the title only (and, against another
\* record, on the artist only); a Login by a user who plays nothing.
Play1 == LogEvent(1500, "NextSong", "u1", "free", "Test Song", "Test Artist", 1)
Play2 == LogEvent(86401001, "NextSong", "u1", "paid", "Test Song", "Artist Alias", 2)
Login == LogEvent(2500, "Login", "u2", "free", Null, Null, 3)

EventPool == {Play1, Play2, Login}

RECURSIVE SeqsUpTo(_, _)
SeqsUpTo(S, n) ==
    IF n = 0 THEN {<<>>}
    ELSE LET shorter == SeqsUpTo(S, n - 1)
         IN shorter \cup {Append(s, x) : s \in shorter, x \in S}

\* Both reads are globs over files, and a read whose glob matches no file
\* raises: a run that gets anywhere has at least one record of each kind.
Inputs ==
    [songs : SeqsUpTo(SongPool, MaxSongs) \ {<<>>},
     log : SeqsUpTo(EventPool, MaxEvents) \ {<<>>}]

----------------------------------------------------------------------------
(* Data-frame operations *)

Range(s) == {s[i] : i \in 1..Len(s)}

Map(df, F(_)) == [i \in 1..Len(df) |-> F(df[i])]

WithColumn(row, name, val) ==
    [c \in DOMAIN row \cup {name} |-> IF c = name THEN val ELSE row[c]]

DropDuplicates_keepAll(df, key) == {Range(df)}

\* dropDuplicates on one column: one row is kept for each value of the column,
\* and which of the rows holding that value it is, is not determined.
DropDuplicates(df, key) ==
    LET rows == Range(df)
        keys == {r[key] : r \in rows}
    IN { {keep[k] : k \in keys} :
           keep \in {f \in [keys -> rows] : \A k \in keys : f[k][key] = k} }

Select(row, cols) == [c \in cols |-> row[c]]

\* Column equality in a join condition: a null on either side is no match.
SqlEq(a, b) == a # Null /\ b # Null /\ a = b

----------------------------------------------------------------------------
(* Timestamps and the calendar functions (session time zone UTC) *)

\* datetime.fromtimestamp(int(x)/1000.0): seconds and microseconds.
get_timestamp(x) == [sec |-> x \div 1000, micros |-> (x % 1000) * 1000]

Before(a, b) == a.sec < b.sec \/ (a.sec = b.sec /\ a.micros < b.micros)

EpochDay(t) == t.sec \div 86400

\* Days to civil date, proleptic Gregorian calendar.
Civil(z) ==
    LET n == z + 719468
        era == n \div 146097
        doe == n - era * 146097
        yoe == (doe - doe \div 1460 + doe \div 36524 - doe \div 146096) \div 365
        doy == doe - (365 * yoe + yoe \div 4 - yoe \div 100)
        mp == (5 * doy + 2) \div 153
        m == IF mp < 10 THEN mp + 3 ELSE mp - 9
    IN [year |-> yoe + era * 400 + (IF m <= 2 THEN 1 ELSE 0),
        month |-> m,
        day |-> doy - (153 * mp + 2) \div 5 + 1]

hour(t) == (t.sec \div 3600) % 24
dayofmonth(t) == Civil(EpochDay(t)).day
month(t) == Civil(EpochDay(t)).month
year(t) == Civil(EpochDay(t)).year
\* 1 is Sunday; 1970-01-01 was a Thursday.
dayofweek(t) == ((EpochDay(t) + 4) % 7) + 1

LeapsBefore(y) == (y - 1) \div 4 - (y - 1) \div 100 + (y - 1) \div 400
DayOfYear(t) ==
    EpochDay(t) - (365 * (year(t) - 1970) + LeapsBefore(year(t)) - LeapsBefore(1970)) + 1
WeeksIn(y) ==
    LET p(k) == (k + k \div 4 - k \div 100 + k \div 400) % 7
    IN IF p(y) = 4 \/ p(y - 1) = 3 THEN 53 ELSE 52
\* ISO 8601 week number.
weekofyear(t) ==
    LET wd == ((EpochDay(t) + 3) % 7) + 1
        w == (DayOfYear(t) - wd + 10) \div 7
    IN IF w < 1 THEN WeeksIn(year(t) - 1)
       ELSE IF w > WeeksIn(year(t)) THEN 1 ELSE w

----------------------------------------------------------------------------
(* process_song_data *)

\* spark.read.json against song_data_schema: the ten declared columns.
ReadSongData_nullIds(raw) ==
    [i \in 1..Len(raw) |-> [raw[i] EXCEPT !.song_id = Null, !.artist_id = Null]]

ReadSongData(raw) ==
    Map(raw, LAMBDA r : Select(r, {"artist_id", "artist_latitude", "artist_location",
                                   "artist_longitude", "artist_name", "duration",
                                   "num_songs", "song_id", "title", "year"}))

\* The tables are sets of possible results, one per outcome of dropDuplicates.
songs_table(df) ==
    DropDuplicates(
        Map(df, LAMBDA r : Select(r, {"song_id", "title", "artist_id", "duration", "year"})),
        "song_id")

artists_table(df) ==
    DropDuplicates(
        Map(df, LAMBDA r : [artist_id |-> r.artist_id, name |-> r.artist_name,
                            location |-> r.artist_location,
                            latitude |-> r.artist_latitude,
                            longitude |-> r.artist_longitude]),
        "artist_id")

----------------------------------------------------------------------------
(* process_log_data *)

IsNextSong_anyPage(e) == TRUE

IsNextSong(e) == e.page = "NextSong"

\* spark.read.json(log_data) followed by the filter on page.
ReadLogData(raw) == SelectSeq(raw, IsNextSong)

users_table(df) ==
    DropDuplicates(
        Map(df, LAMBDA e : [user_id |-> e.userId, first_name |-> e.firstName,
                            last_name |-> e.lastName, gender |-> e.gender,
                            level |-> e.level]),
        "user_id")

\* The columns timestamp and datetime, both made by get_timestamp.
WithTimestamps(df) ==
    Map(df, LAMBDA e : WithColumn(WithColumn(e, "timestamp", get_timestamp(e.ts)),
                                  "datetime", get_timestamp(e.ts)))

TimeKey_hour == "hour"

TimeKey == "start_time"

time_table(df) ==
    DropDuplicates(
        Map(df, LAMBDA e : [ts |-> e.ts, datetime |-> e.datetime,
                            timestamp |-> e.timestamp,
                            hour |-> hour(e.timestamp),
                            day |-> dayofmonth(e.timestamp),
                            week |-> weekofyear(e.timestamp),
                            month |-> month(e.timestamp),
                            year |-> year(e.timestamp),
                            weekday |-> dayofweek(e.timestamp),
                            start_time |-> e.timestamp]),
        TimeKey)

JoinCond_titleOnly(l, r) == SqlEq(l.song, r.title)

JoinCond(l, r) == SqlEq(l.song, r.title) /\ SqlEq(l.artist, r.artist_name)

SongColumns ==
    {"artist_id", "artist_latitude", "artist_location", "artist_longitude",
     "artist_name", "duration", "num_songs", "song_id", "title", "year"}

Joined(l, r) ==
    [c \in DOMAIN l \cup SongColumns |-> IF c \in SongColumns THEN r[c] ELSE l[c]]

\* Left outer join: a row for every pair that satisfies the condition, and a
\* row with nulls on the right for a left row that no right row satisfies.
RECURSIVE LeftJoin(_, _)
LeftJoin(left, right) ==
    IF left = <<>> THEN <<>>
    ELSE LET l == Head(left)
             hits == SelectSeq(right, LAMBDA r : JoinCond(l, r))
             out == IF hits = <<>>
                    THEN << Joined(l, [c \in SongColumns |-> Null]) >>
                    ELSE Map(hits, LAMBDA r : Joined(l, r))
         IN out \o LeftJoin(Tail(left), right)

songplays_select(sp) ==
    Map(sp, LAMBDA r : [start_time |-> r.timestamp, user_id |-> r.userId,
                        level |-> r.level, song_id |-> r.song_id,
                        artist_id |-> r.artist_id, session_id |-> r.sessionId,
                        location |-> r.location, user_agent |-> r.userAgent])

WindowOrder_none(a, b) == FALSE

\* Window.orderBy(start_time): a comes before b.
WindowOrder(a, b) == Before(a.start_time, b.start_time)

\* The orders of the rows the window allows (rows of equal start_time in
\* either order), each once.
RECURSIVE Orders(_, _)
Orders(rows, idx) ==
    IF idx = {} THEN {<<>>}
    ELSE LET firsts == {i \in idx : \A j \in idx : ~WindowOrder(rows[j], rows[i])}
             reps == {i \in firsts : \A j \in firsts : rows[j] = rows[i] => i <= j}
         IN UNION { {<<rows[i]>> \o rest : rest \in Orders(rows, idx \ {i})} :
                    i \in reps }

\* row_number() over the window, then the partition columns month and year:
\* the rows in every order the window allows, numbered from 1.
songplays_table(rows) ==
    { { [c \in DOMAIN o[i] \cup {"songplay_id", "month", "year"} |->
           CASE c = "songplay_id" -> i
             [] c = "month" -> month(o[i].start_time)
             [] c = "year" -> year(o[i].start_time)
             [] OTHER -> o[i][c]] : i \in 1..Len(o) } :
      o \in Orders(rows, 1..Len(rows)) }

\* spark.read.json(song_data) with the schema inferred: every column.
ReadSongDf(raw) == Map(raw, LAMBDA r : Select(r, SongColumns))

----------------------------------------------------------------------------
(* The writer and the control flow of main *)

Overwrite_append(old, new) == old \cup new

\* .parquet(path, mode="overwrite")
Overwrite(old, new) == new

Steps ==
    << "read_song_data", "write_songs", "write_artists",
       "read_log_data", "write_users", "write_time", "read_song_df",
       "write_songplays" >>

ReadSteps == {"read_song_data", "read_log_data", "read_song_df"}
WriteSteps == Range(Steps) \ ReadSteps

StepNo(step) == CHOOSE i \in 1..Len(Steps) : Steps[i] = step

After(step) == IF StepNo(step) = Len(Steps) THEN "done" ELSE Steps[StepNo(step) + 1]

OnError_swallow(step) == After(step)

\* Nothing in main or in the two pipelines catches: an exception ends the run.
OnError(step) == "aborted"

Init ==
    /\ input \in Inputs
    /\ pc = "idle"
    /\ song_data_df = <<>> /\ log_data_df = <<>> /\ song_df = <<>>
    /\ songs = {} /\ artists = {} /\ users = {} /\ time = {} /\ songplays = {}
    /\ written = <<>>
    /\ runs = 0 /\ edits = 0
    /\ replay = FALSE

\* main up to its first read.
StartRun ==
    /\ runs < MaxRuns
    /\ runs' = runs + 1
    /\ pc' = Steps[1]
    /\ song_data_df' = <<>> /\ log_data_df' = <<>> /\ song_df' = <<>>
    /\ written' = <<>>
    /\ UNCHANGED <<input, dest, edits, replay>>

Main == pc = "idle" /\ StartRun

ReadSongDataStep ==
    /\ pc = "read_song_data"
    /\ song_data_df' = ReadSongData(input.songs)
    /\ pc' = After(pc)
    /\ UNCHANGED <<input, log_data_df, song_df, dest, written, runs, edits, replay>>

WriteSongs ==
    /\ pc = "write_songs"
    /\ \E t \in songs_table(song_data_df) : songs' = Overwrite(songs, t)
    /\ written' = Append(written, "songs")
    /\ pc' = After(pc)
    /\ UNCHANGED <<input, song_data_df, log_data_df, song_df,
                   artists, users, time, songplays, runs, edits, replay>>

WriteArtists ==
    /\ pc = "write_artists"
    /\ \E t \in artists_table(song_data_df) : artists' = Overwrite(artists, t)
    /\ written' = Append(written, "artists")
    /\ pc' = After(pc)
    /\ UNCHANGED <<input, song_data_df, log_data_df, song_df,
                   songs, users, time, songplays, runs, edits, replay>>

ReadLogDataStep ==
    /\ pc = "read_log_data"
    /\ log_data_df' = ReadLogData(input.log)
    /\ pc' = After(pc)
    /\ UNCHANGED <<input, song_data_df, song_df, dest, written, runs, edits, replay>>

WriteUsers ==
    /\ pc = "write_users"
    /\ \E t \in users_table(log_data_df) : users' = Overwrite(users, t)
    /\ written' = Append(written, "users")
    /\ pc' = After(pc)
    /\ UNCHANGED <<input, song_data_df, log_data_df, song_df,
                   songs, artists, time, songplays, runs, edits, replay>>

WriteTime ==
    /\ pc = "write_time"
    /\ log_data_df' = WithTimestamps(log_data_df)
    /\ \E t \in time_table(log_data_df') : time' = Overwrite(time, t)
    /\ written' = Append(written, "time")
    /\ pc' = After(pc)
    /\ UNCHANGED <<input, song_data_df, song_df,
                   songs, artists, users, songplays, runs, edits, replay>>

ReadSongDfStep ==
    /\ pc = "read_song_df"
    /\ song_df' = ReadSongDf(input.songs)
    /\ pc' = After(pc)
    /\ UNCHANGED <<input, song_data_df, log_data_df, dest, written, runs, edits, replay>>

WriteSongplays ==
    /\ pc = "write_songplays"
    /\ \E t \in songplays_table(songplays_select(LeftJoin(log_data_df, song_df))) :
          songplays' = Overwrite(songplays, t)
    /\ written' = Append(written, "songplays")
    /\ pc' = After(pc)
    /\ replay' = TRUE
    /\ UNCHANGED <<input, song_data_df, log_data_df, song_df,
                   songs, artists, users, time, runs, edits>>

\* A read raises: the run ends with the destination as it was.
FailRead ==
    /\ pc \in ReadSteps
    /\ pc' = OnError(pc)
    /\ UNCHANGED <<input, song_data_df, log_data_df, song_df, dest,
                   written, runs, edits, replay>>

\* A write raises: the run ends, and the table being written is left either
\* as it was or already cleared for the overwrite.
FailWrite ==
    /\ pc \in WriteSteps
    /\ \E left \in {"kept", "cleared"} :
          LET after(t, step) == IF pc = step /\ left = "cleared" THEN {} ELSE t
          IN /\ songs' = after(songs, "write_songs")
             /\ artists' = after(artists, "write_artists")
             /\ users' = after(users, "write_users")
             /\ time' = after(time, "write_time")
             /\ songplays' = after(songplays, "write_songplays")
    /\ pc' = OnError(pc)
    /\ replay' = (replay /\ dest' = dest)
    /\ UNCHANGED <<input, song_data_df, log_data_df, song_df, written, runs, edits>>

----------------------------------------------------------------------------
(* One run of main *)

Next ==
    \/ Main
    \/ ReadSongDataStep \/ WriteSongs \/ WriteArtists
    \/ ReadLogDataStep \/ WriteUsers \/ WriteTime \/ ReadSongDfStep \/ WriteSongplays
    \/ FailRead \/ FailWrite

Spec == Init /\ [][Next]_vars

----------------------------------------------------------------------------
(* main run again, on the same raw data or after they changed *)

\* Raw data with records that share a key and differ, with rows that tie on
\* start_time, and with no play at all.
RerunInputs ==
    { [songs |-> <<Song1, Song3>>, log |-> <<Play1, Play2>>],
      [songs |-> <<Song1, Song2>>, log |-> <<Login, Play1>>],
      [songs |-> <<Song2, Song1>>, log |-> <<Play2, Play1, Play1>>],
      [songs |-> <<Song2>>, log |-> <<Login>>] }

InitRerun == Init /\ input \in RerunInputs

Rerun == pc \in {"done", "aborted"} /\ StartRun

ChangeInput ==
    /\ pc \in {"done", "aborted"}
    /\ edits < MaxEdits
    /\ input' \in RerunInputs \ {input}
    /\ edits' = edits + 1
    /\ pc' = "idle"
    /\ replay' = FALSE
    /\ UNCHANGED <<song_data_df, log_data_df, song_df, dest, written, runs>>

NextRerun == Next \/ Rerun \/ ChangeInput

SpecRerun == InitRerun /\ [][NextRerun]_vars

----------------------------------------------------------------------------
(* What the claims speak of, stated on the raw data *)

\* The run in progress, or just ended, has written table t.
Written(t) == pc # "idle" /\ \E i \in 1..Len(written) : written[i] = t

Done == pc = "done"

Plays == {i \in 1..Len(input.log) : input.log[i].page = "NextSong"}

Millis(t) == t.sec * 1000 + t.micros \div 1000

UniqueBy(T, key) == \A a, b \in T : a[key] = b[key] => a = b

\* Row r of songplays carries the log fields of event e.
FromEvent(r, e) ==
    /\ Millis(r.start_time) = e.ts /\ r.start_time.micros % 1000 = 0
    /\ r.user_id = e.userId /\ r.level = e.level
    /\ r.session_id = e.sessionId /\ r.location = e.location
    /\ r.user_agent = e.userAgent

Matches(e) ==
    {j \in 1..Len(input.songs) :
        input.songs[j].title = e.song /\ input.songs[j].artist_name = e.artist}

----------------------------------------------------------------------------
(* C1: the users table has exactly one row for each distinct userId that
   occurs in any event of the log, whatever the event's page.  (As claimed;
   the code contradicts it.) *)
C1_UsersFromAllEvents ==
    Written("users") =>
        /\ UniqueBy(users, "user_id")
        /\ {u.user_id : u \in users} = {input.log[i].userId : i \in 1..Len(input.log)}

(* C1, amended: the users table has exactly one row for each distinct userId
   that occurs in an event with page = "NextSong", and no row for a user all
   of whose events have another page. *)
C1_UsersFromPlays ==
    Written("users") =>
        /\ UniqueBy(users, "user_id")
        /\ {u.user_id : u \in users} = {input.log[i].userId : i \in Plays}

C1_Witness ==
    /\ Done
    /\ users # {}
    /\ \E i \in 1..Len(input.log) :
          /\ input.log[i].page # "NextSong"
          /\ \A j \in Plays : input.log[j].userId # input.log[i].userId

(* C2: songplays has exactly one row per event with page = "NextSong" and
   none for any other event, also when several records of the catalog share
   one (title, artist_name).  (As claimed; the code contradicts it.) *)
C2_OneRowPerPlay ==
    Written("songplays") => Cardinality(songplays) = Cardinality(Plays)

(* C3: the songplay_id values of the N rows of songplays are exactly 1..N,
   no two rows share one, and a row of earlier start_time has the smaller
   songplay_id. *)
C3_DenseOrderedIds ==
    Written("songplays") =>
        /\ {r.songplay_id : r \in songplays} = 1..Cardinality(songplays)
        /\ UniqueBy(songplays, "songplay_id")
        /\ \A a, b \in songplays :
              Millis(a.start_time) < Millis(b.start_time)
                  => a.songplay_id < b.songplay_id

C3_Witness ==
    /\ Done
    /\ \E a, b, c \in songplays :
          /\ a # b /\ a.start_time = b.start_time
          /\ Millis(a.start_time) < Millis(c.start_time)

(* C4: a NextSong event whose (song, artist) equals the (title, artist_name)
   of a catalog record has a row in songplays with that record's song_id and
   artist_id, and every row of the event carries the ids of such a record; a
   NextSong event that no record matches on both fields has a row, and its
   rows have song_id and artist_id null; the rows keep the log fields. *)
C4_LeftJoin ==
    Written("songplays") =>
        /\ \A i \in Plays :
              LET e == input.log[i]
                  mine == {r \in songplays : FromEvent(r, e)}
              IN /\ mine # {}
                 /\ \A j \in Matches(e) :
                       \E r \in mine : /\ r.song_id = input.songs[j].song_id
                                       /\ r.artist_id = input.songs[j].artist_id
                 /\ \A r \in mine :
                       IF Matches(e) = {}
                       THEN r.song_id = Null /\ r.artist_id = Null
                       ELSE \E j \in Matches(e) :
                              /\ r.song_id = input.songs[j].song_id
                              /\ r.artist_id = input.songs[j].artist_id
        /\ \A r \in songplays : \E i \in Plays : FromEvent(r, input.log[i])

C4_Witness ==
    /\ Done
    /\ \E i, k \in Plays :
          /\ Matches(input.log[i]) # {}
          /\ Matches(input.log[k]) = {}
          /\ \E j \in 1..Len(input.songs) : input.songs[j].title = input.log[k].song
          /\ \E r \in songplays : FromEvent(r, input.log[k]) /\ r.song_id = Null
          /\ \E r \in songplays : FromEvent(r, input.log[i]) /\ r.song_id # Null

(* C5: songs has exactly one row per distinct song_id of the catalog and
   artists exactly one per distinct artist_id, and every row is the
   projection of one single record of the catalog. *)
C5_SongAndArtistKeys ==
    /\ Written("songs") =>
          /\ UniqueBy(songs, "song_id")
          /\ {r.song_id : r \in songs} =
                {input.songs[j].song_id : j \in 1..Len(input.songs)}
          /\ \A r \in songs : \E j \in 1..Len(input.songs) :
                LET c == input.songs[j]
                IN r = [song_id |-> c.song_id, title |-> c.title,
                        artist_id |-> c.artist_id, duration |-> c.duration,
                        year |-> c.year]
    /\ Written("artists") =>
          /\ UniqueBy(artists, "artist_id")
          /\ {r.artist_id : r \in artists} =
                {input.songs[j].artist_id : j \in 1..Len(input.songs)}
          /\ \A r \in artists : \E j \in 1..Len(input.songs) :
                LET c == input.songs[j]
                IN r = [artist_id |-> c.artist_id, name |-> c.artist_name,
                        location |-> c.artist_location,
                        latitude |-> c.artist_latitude,
                        longitude |-> c.artist_longitude]

C5_Witness ==
    /\ Done
    /\ \E j, k \in 1..Len(input.songs) :
          /\ input.songs[j].song_id = input.songs[k].song_id
          /\ input.songs[j].artist_id = input.songs[k].artist_id
          /\ input.songs[j].title # input.songs[k].title
          /\ input.songs[j].artist_name # input.songs[k].artist_name
    /\ Cardinality(songs) = 1 /\ Cardinality(artists) = 1

(* C6: time has exactly one row per distinct start_time among the events
   with page = "NextSong" and no row for an instant that only an event of
   another page has; two NextSong events of one ts give one row. *)
C6_TimeRows ==
    Written("time") =>
        /\ UniqueBy(time, "start_time")
        /\ {Millis(r.start_time) : r \in time} = {input.log[i].ts : i \in Plays}
        /\ \A r \in time : r.start_time.micros % 1000 = 0

C6_Witness ==
    /\ Done
    /\ Cardinality(time) = 1
    /\ \E i, k \in Plays : i # k /\ input.log[i].ts = input.log[k].ts
    /\ \E i \in 1..Len(input.log) :
          /\ input.log[i].page # "NextSong"
          /\ \A k \in Plays : input.log[k].ts # input.log[i].ts

(* C7: a second run of main on unchanged raw data and an unchanged
   destination leaves songs, artists, users and time row for row as they
   were, and songplays too but for the songplay_id of rows of equal
   start_time, also when records share a dimension key and differ.  (As
   claimed; the code contradicts it.) *)
Strip(r) == [c \in DOMAIN r \ {"songplay_id"} |-> r[c]]

SameUpToTies(old, new) ==
    /\ Cardinality(old) = Cardinality(new)
    /\ \A v \in {Strip(r) : r \in old \cup new} :
          Cardinality({r \in old : Strip(r) = v}) = Cardinality({r \in new : Strip(r) = v})
    /\ \A a \in old, b \in new :
          a.songplay_id = b.songplay_id => a.start_time = b.start_time

C7_RerunIdentical ==
    [][ (replay /\ pc' # "aborted") =>
           /\ songs' = songs /\ artists' = artists /\ users' = users
           /\ time' = time
           /\ SameUpToTies(songplays, songplays') ]_vars

SongConflict(k) ==
    \E i, j \in 1..Len(input.songs) :
        /\ input.songs[i].song_id = k /\ input.songs[j].song_id = k
        /\ Select(input.songs[i], {"title", "artist_id", "duration", "year"})
             # Select(input.songs[j], {"title", "artist_id", "duration", "year"})

ArtistConflict(k) ==
    \E i, j \in 1..Len(input.songs) :
        /\ input.songs[i].artist_id = k /\ input.songs[j].artist_id = k
        /\ Select(input.songs[i], {"artist_name", "artist_location",
                                   "artist_latitude", "artist_longitude"})
             # Select(input.songs[j], {"artist_name", "artist_location",
                                      "artist_latitude", "artist_longitude"})

UserConflict(k) ==
    \E i, j \in Plays :
        /\ input.log[i].userId = k /\ input.log[j].userId = k
        /\ Select(input.log[i], {"firstName", "lastName", "gender", "level"})
             # Select(input.log[j], {"firstName", "lastName", "gender", "level"})

SameButConflicts(old, new, key, Conflict(_)) ==
    /\ {r[key] : r \in old} = {r[key] : r \in new}
    /\ \A r \in old : ~Conflict(r[key]) => r \in new

(* C7, amended: a second run of main on unchanged raw data and an unchanged
   destination leaves time row for row as it was, leaves songs, artists and
   users with the same keys and with the same row for every key whose input
   records agree on the table's columns, and leaves songplays as it was but
   for the songplay_id of rows of equal start_time; for a key whose records
   differ, the record the row is taken from may change from run to run. *)
C7_RerunSameButConflicts ==
    [][ (replay /\ pc' # "aborted") =>
           /\ SameButConflicts(songs, songs', "song_id", SongConflict)
           /\ SameButConflicts(artists, artists', "artist_id", ArtistConflict)
           /\ SameButConflicts(users, users', "user_id", UserConflict)
           /\ time' = time
           /\ SameUpToTies(songplays, songplays') ]_vars

C7_Witness ==
    /\ replay /\ runs = 2 /\ pc = "write_songplays"
    /\ \E u \in users : UserConflict(u.user_id)
    /\ \E r \in songs : SongConflict(r.song_id)

(* C8: a run writes songs, artists, users, time, songplays in that order,
   the song pipeline ending before the log pipeline reads; a read or a write
   that fails ends the run there, so that no later table is written in that
   run (a failure in process_song_data leaves process_log_data unrun) and
   the failed step is not tried again. *)
WriteOrder == <<"songs", "artists", "users", "time", "songplays">>

WrittenAt ==
    [read_song_data |-> 0, write_songs |-> 0, write_artists |-> 1,
     read_log_data |-> 2, write_users |-> 2, write_time |-> 3,
     read_song_df |-> 4, write_songplays |-> 4, done |-> 5]

C8_OrderAndAbort ==
    /\ [](pc \in DOMAIN WrittenAt => written = SubSeq(WriteOrder, 1, WrittenAt[pc]))
    /\ [](pc = "aborted" =>
            /\ Len(written) < 5 /\ written = SubSeq(WriteOrder, 1, Len(written))
            /\ Len(written) < 2 => (log_data_df = <<>> /\ song_df = <<>>))
    /\ [][ \A k \in 1..5 : dest'[k] # dest[k] => k = Len(written) + 1 ]_vars
    /\ [][ pc = "aborted" =>
             /\ dest' = dest
             /\ pc' \in {"aborted", "idle", "read_song_data"}
             /\ pc' = "read_song_data" => runs' = runs + 1 ]_vars

C8_Witness ==
    /\ pc = "aborted" /\ written = <<"songs">>
    /\ songs # {} /\ users = {} /\ log_data_df = <<>>
    /\ Plays # {}

(* C9: every write replaces the table: when a run completes, whatever runs
   came before it (completed or aborted, on these raw data or on others),
   each of the five tables holds the rows a run on the present raw data and
   an empty destination produces, and no row of an earlier run. *)
C9_OverwriteOnly ==
    Done =>
        /\ songs \in songs_table(ReadSongData(input.songs))
        /\ artists \in artists_table(ReadSongData(input.songs))
        /\ users \in users_table(ReadLogData(input.log))
        /\ time \in time_table(WithTimestamps(ReadLogData(input.log)))
        /\ songplays \in songplays_table(songplays_select(
               LeftJoin(WithTimestamps(ReadLogData(input.log)), ReadSongDf(input.songs))))

C9_Witness ==
    /\ Done /\ runs = 2 /\ edits = 1
    /\ Plays = {} /\ songplays = {} /\ Cardinality(songs) = 1

(* C10: when a run has completed, every row of songplays has its start_time
   in time and its user_id in users, and its song_id, if not null, in songs
   and its artist_id, if not null, in artists. *)
C10_ReferentialIntegrity ==
    Done =>
        \A r \in songplays :
            /\ \E t \in time : t.start_time = r.start_time
            /\ \E u \in users : u.user_id = r.user_id
            /\ r.song_id # Null => \E x \in songs : x.song_id = r.song_id
            /\ r.artist_id # Null => \E a \in artists : a.artist_id = r.artist_id

C10_Witness ==
    /\ Done
    /\ \E r \in songplays : r.song_id # Null /\ r.artist_id # Null
    /\ \E r \in songplays : r.song_id = Null

====
